---- MODULE Spec2Model ----
(***************************************************************************)
(* A model of landshark's coordinate mapper (landshark/image.py), of its   *)
(* streaming feature writer (landshark/importers/featurewrite.py) and of   *)
(* the construction of a feature set's metadata (landshark/metadata.py).   *)
(*                                                                         *)
(* World coordinates are 64-bit floats in the code.  The coordinate mapper *)
(* only compares them (searchsorted, ==), so they are modelled by integers *)
(* with the same order.  Pixel indices are 0-based as in the code; the     *)
(* sequences that hold arrays are 1-based, so a[i] of the code is a[i + 1] *)
(* here.                                                                   *)
(***************************************************************************)
EXTENDS Integers, Sequences, FiniteSets, TLC

VARIABLES
    \* ---- coordinate mapper (image.py) ----
    edges,      \* pixel_coordinate_array of the image under test
    op,         \* the last call made: "none", "image_to_world", ...
    indices,    \* argument of the image_to_world call, if it was the last
    world,      \* its result            call or the round trip's first call
    points,     \* argument of the world_to_image call, if it was the last
    idx,        \* its result
    raised,     \* the exception the last call raised, or "none"
    \* ---- coords_query (image.py) ----
    image_width,
    image_height,
    batchsize,
    coords_it,  \* the product iterator: the (y, x) it yields next
    yielded,    \* the batches yielded so far, each a pair of arrays (cx, cy)
    returned,   \* TRUE once the generator has returned
    \* ---- _Statistics, _to_masked (featurewrite.py) ----
    ordinal_missing,  \* the missing value of each ordinal band, or None
    stats,      \* the accumulator: of each band, its _mean, _m2 and _n
    bm,         \* the masked array _to_masked returned last
    seen,       \* of each band, how often each value went unmasked into
                \* an update: the bag of the values accumulated
    nupdates,   \* the number of successful update calls
    nsamples,   \* the number of sample rows they were given
    stat_call,  \* the last call on the accumulator and how it ended
    \* ---- _Categories, _categorical_write (featurewrite.py) ----
    categorical_missing,  \* the missing value of each categorical band
    max_categories,
    cat_source, \* the blocks that categorical_blocks() yields, in order
    cats,       \* the encoder: of each band, its _values and its _maps
    pulled,     \* the number of blocks pulled from the source
    new_b,      \* the block the last update call returned
    cat_array,  \* the destination array, row by row
    start_idx,
    cat_pc,     \* "writing", "failed" (an update raised) or "done"
    cat_attrs,  \* the attributes write_datafile sets once the pass is done
    \* ---- _get_stats, _standardise_write, _write (featurewrite.py) ----
    standardise,
    ord_source, \* the blocks that ordinal_blocks() yields, in order
    ord_pc,     \* "stats", "write", "done" or "failed" (an assertion failed)
    ord_pulled, \* the number of blocks pulled from the source in this pass
    ord_array,  \* the destination array, row by row
    ord_start_idx,
    ord_attrs,  \* the mean and variance attributes of the destination
    \* ---- FeatureSetMetadata (metadata.py) ----
    ordinal,    \* the arguments of the constructor
    categorical,
    feature_set,    \* the object constructed
    meta_raised,    \* the exception the constructor raised, or "none"
    \* ---- coords_training (image.py) ----
    coords,     \* the (N, 2) array of target coordinates
    x_pixel_array,
    y_pixel_array,
    train_batchsize,
    train_c,    \* c, the index of the first coordinate of the next batch
    train_yielded,  \* the batches yielded so far, each (im_coords_x,
                    \* im_coords_y)
    train_pc    \* "running", "returned" or "raised" (a ValueError)

varsImage == <<edges, op, indices, world, points, idx, raised>>
varsQuery ==
    <<image_width, image_height, batchsize, coords_it, yielded, returned>>

varsStats ==
    <<ordinal_missing, stats, bm, seen, nupdates, nsamples, stat_call>>

varsCats ==
    <<categorical_missing, max_categories, cat_source, cats, pulled, new_b,
      cat_array, start_idx, cat_pc, cat_attrs>>

varsOrd ==
    <<standardise, ord_source, ord_pc, ord_pulled, ord_array, ord_start_idx,
      ord_attrs>>

varsMeta == <<ordinal, categorical, feature_set, meta_raised>>

varsTrain ==
    <<coords, x_pixel_array, y_pixel_array, train_batchsize, train_c,
      train_yielded, train_pc>>

vars ==
    <<varsImage, varsQuery, varsStats, varsCats, varsOrd, varsMeta,
      varsTrain>>

(***************************************************************************)
(* Bounds of the model.                                                    *)
(***************************************************************************)
MaxCoord == 4    \* pixel edges take world coordinates in 0 .. MaxCoord
MaxEdges == 4    \* an edge array holds 2 .. MaxEdges edges
MaxPts == 2      \* a call converts 0 .. MaxPts points or indices
MaxWidth == 3    \* coords_query: images of 0 .. MaxWidth columns
MaxHeight == 3   \*               and 0 .. MaxHeight rows,
MaxBatch == 4    \*               in batches of 1 .. MaxBatch
MaxSamples == 2  \* _Statistics: blocks of 1 .. MaxSamples sample rows,
MaxTotal == 4    \*              of at most MaxTotal rows together
MaxBlockRows == 2   \* categorical source: blocks of 1 .. MaxBlockRows rows,
MaxImageRows == 4   \*                     at most MaxImageRows rows in all

MaxTrain == 3    \* coords_training: 0 .. MaxTrain coordinates,
MaxTrainBatch == 3   \*              in batches of 1 .. MaxTrainBatch
MaxN == 3        \* FeatureSetMetadata: stacks of 0 .. MaxN points
MaxD == 2        \*                     and 1 .. MaxD bands

\* max_categories=5000, the default that _categorical_write runs with
DefaultMaxCategories == 5000

\* An optional value: None, or Some(v) holding v.
None == <<>>
Some(v) == <<v>>

Min(a, b) == IF a <= b THEN a ELSE b

SeqsUpTo(S, n) == UNION {[1..k -> S] : k \in 0..n}

\* a[::-1]
Reversed(a) == [j \in 1..Len(a) |-> a[Len(a) + 1 - j]]

(***************************************************************************)
(* np.searchsorted(a, v, side) on an ascending array a: the bisection of   *)
(* numpy, returning the 0-based insertion index of v.                      *)
(***************************************************************************)
RECURSIVE Bisect(_, _, _, _, _)
Bisect(a, v, side, lo, hi) ==
    IF lo >= hi THEN lo
    ELSE LET mid == lo + ((hi - lo) \div 2)
             goRight == IF side = "left" THEN a[mid + 1] < v
                                         ELSE a[mid + 1] <= v
         IN  IF goRight THEN Bisect(a, v, side, mid + 1, hi)
                        ELSE Bisect(a, v, side, lo, mid)

searchsorted(a, v, side) == Bisect(a, v, side, 0, Len(a))

(***************************************************************************)
(* image_to_world: the assertions on the indices, then the table lookup.   *)
(***************************************************************************)
image_to_world_ok(ind, pca) ==
    \A k \in 1..Len(ind) : ind[k] >= 0 /\ ind[k] < Len(pca) - 1

image_to_world(ind, pca) == [k \in 1..Len(ind) |-> pca[ind[k] + 1]]

(***************************************************************************)
(* world_to_image, in the three steps of the code: the search (reversed    *)
(* for a decreasing array), the move of the points on the final edge, and  *)
(* the range check.                                                        *)
(***************************************************************************)
search_idx_left(pts, pca) ==
    LET reverse == pca[2] < pca[1]
    IN  [p \in 1..Len(pts) |->
            IF reverse
            THEN Len(pca) - (searchsorted(Reversed(pca), pts[p], "left") + 1)
            ELSE searchsorted(pca, pts[p], "left") - 1]

search_idx(pts, pca) ==
    LET reverse == pca[2] < pca[1]
    IN  [p \in 1..Len(pts) |->
            IF reverse
            THEN Len(pca) - (searchsorted(Reversed(pca), pts[p], "left") + 1)
            ELSE searchsorted(pca, pts[p], "right") - 1]

move_on_end_never(i, pts, pca) == i

move_on_end(i, pts, pca) ==
    [p \in 1..Len(pts) |->
        IF pts[p] = pca[Len(pca)] THEN i[p] - 1 ELSE i[p]]

in_image_no_upper(i, pca) == \A p \in 1..Len(i) : i[p] >= 0

in_image(i, pca) ==
    LET res == Len(pca) - 1
    IN  \A p \in 1..Len(i) : i[p] >= 0 /\ i[p] < res

world_to_image(pts, pca) ==
    LET i == move_on_end(search_idx(pts, pca), pts, pca)
    IN  IF in_image(i, pca)
        THEN [raised |-> "none", value |-> i]
        ELSE [raised |-> "ValueError", value |-> <<>>]

(***************************************************************************)
(* The coordinate mapper under test: an image (its edge array, strictly    *)
(* increasing or strictly decreasing) and a call made on it, or the two    *)
(* calls of a round trip.  Both functions are pure, so what a call returns *)
(* does not depend on the calls made before it.                            *)
(***************************************************************************)
Coords == 0..MaxCoord
WorldPoints == (0 - 1)..(MaxCoord + 1)

Increasing(a) == \A j \in 1..(Len(a) - 1) : a[j] < a[j + 1]
Decreasing(a) == \A j \in 1..(Len(a) - 1) : a[j] > a[j + 1]

EdgeArrays ==
    {a \in UNION {[1..k -> Coords] : k \in 2..MaxEdges} :
        Increasing(a) \/ Decreasing(a)}

\* The generator of coords_query, not started.
IdleQuery ==
    /\ image_width = 0
    /\ image_height = 0
    /\ batchsize = 1
    /\ coords_it = [y |-> 0, x |-> 0]
    /\ yielded = <<>>
    /\ returned = FALSE

\* The statistics accumulator, not in use.
IdleStats ==
    /\ ordinal_missing = <<>>
    /\ stats = <<>>
    /\ bm = <<>>
    /\ seen = <<>>
    /\ nupdates = 0
    /\ nsamples = 0
    /\ stat_call = <<>>

\* The categorical writer, not in use.
IdleCats ==
    /\ categorical_missing = <<>>
    /\ max_categories = DefaultMaxCategories
    /\ cat_source = <<>>
    /\ cats = <<>>
    /\ pulled = 0
    /\ new_b = <<>>
    /\ cat_array = <<>>
    /\ start_idx = 0
    /\ cat_pc = "idle"
    /\ cat_attrs = <<>>

\* The ordinal writer, not in use.
IdleOrd ==
    /\ standardise = FALSE
    /\ ord_source = <<>>
    /\ ord_pc = "idle"
    /\ ord_pulled = 0
    /\ ord_array = <<>>
    /\ ord_start_idx = 0
    /\ ord_attrs = <<>>

\* No feature set under construction.
IdleMeta ==
    /\ ordinal = <<>>
    /\ categorical = <<>>
    /\ feature_set = <<>>
    /\ meta_raised = "not called"

\* The generator of coords_training, not started.
IdleTrain ==
    /\ coords = <<>>
    /\ x_pixel_array = <<0, 1>>
    /\ y_pixel_array = <<0, 1>>
    /\ train_batchsize = 1
    /\ train_c = 0
    /\ train_yielded = <<>>
    /\ train_pc = "idle"

InitImage ==
    /\ IdleQuery
    /\ IdleStats
    /\ IdleCats
    /\ IdleOrd
    /\ IdleMeta
    /\ IdleTrain
    /\ edges \in EdgeArrays
    /\ op = "none"
    /\ indices = <<>>
    /\ world = <<>>
    /\ points = <<>>
    /\ idx = <<>>
    /\ raised = "none"

\* image_to_world(ind, edges), for any index array, in the image or not.
ImageToWorld ==
    \E ind \in SeqsUpTo(0..(MaxEdges - 1), MaxPts) :
        /\ op = "none"
        /\ op' = "image_to_world"
        /\ indices' = ind
        /\ IF image_to_world_ok(ind, edges)
           THEN world' = image_to_world(ind, edges) /\ raised' = "none"
           ELSE world' = <<>> /\ raised' = "AssertionError"
        /\ points' = <<>>
        /\ idx' = <<>>
        /\ UNCHANGED <<edges, varsQuery, varsStats, varsCats>>
        /\ UNCHANGED <<varsOrd, varsMeta, varsTrain>>

\* world_to_image(pts, edges), for any points, in the image or not.
WorldToImage ==
    \E pts \in SeqsUpTo(WorldPoints, MaxPts) :
        LET r == world_to_image(pts, edges)
        IN  /\ op = "none"
            /\ op' = "world_to_image"
            /\ points' = pts
            /\ idx' = r.value
            /\ raised' = r.raised
            /\ indices' = <<>>
            /\ world' = <<>>
            /\ UNCHANGED <<edges, varsQuery, varsStats, varsCats>>
            /\ UNCHANGED <<varsOrd, varsMeta, varsTrain>>

\* world_to_image(image_to_world(ind, edges), edges): the second call of the
\* round trip, made on the result of a successful image_to_world.
RoundTrip ==
    /\ op = "image_to_world"
    /\ raised = "none"
    /\ LET r == world_to_image(world, edges)
       IN  /\ op' = "round_trip"
           /\ points' = world
           /\ idx' = r.value
           /\ raised' = r.raised
    /\ UNCHANGED <<edges, indices, world, varsQuery, varsStats, varsCats>>
    /\ UNCHANGED <<varsOrd, varsMeta, varsTrain>>

NextImage == ImageToWorld \/ WorldToImage \/ RoundTrip

SpecImage == InitImage /\ [][NextImage]_vars

(***************************************************************************)
(* coords_query: a generator over product(range(image_height),             *)
(* range(image_width)), read batchsize coordinates at a time.              *)
(***************************************************************************)
\* The coordinate mapper, not in use.
IdleImage ==
    /\ edges = <<0, 1>>
    /\ op = "none"
    /\ indices = <<>>
    /\ world = <<>>
    /\ points = <<>>
    /\ idx = <<>>
    /\ raised = "none"

\* product(range(height), range(width)) has nothing left after (y, x).
Exhausted(it, width, height) == width = 0 \/ it.y >= height

\* The iterator after one next(): the rightmost range advances fastest.
Advance(it, width) ==
    IF it.x + 1 < width THEN [y |-> it.y, x |-> it.x + 1]
                        ELSE [y |-> it.y + 1, x |-> 0]

\* list(islice(it, n)): the (y, x) pairs read, and the iterator left behind.
RECURSIVE islice(_, _, _, _)
islice(it, n, width, height) ==
    IF n = 0 \/ Exhausted(it, width, height)
    THEN [out |-> <<>>, it |-> it]
    ELSE LET rest == islice(Advance(it, width), n - 1, width, height)
         IN  [out |-> <<(<<it.y, it.x>>)>> \o rest.out, it |-> rest.it]

\* coords_y, coords_x = zip(*out); the batch yielded is (cx, cy).
batch_of_swapped(out) ==
    [cx |-> [k \in 1..Len(out) |-> out[k][1]],
     cy |-> [k \in 1..Len(out) |-> out[k][2]]]

batch_of(out) ==
    [cx |-> [k \in 1..Len(out) |-> out[k][2]],
     cy |-> [k \in 1..Len(out) |-> out[k][1]]]

InitQuery ==
    /\ IdleImage
    /\ IdleStats
    /\ IdleCats
    /\ IdleOrd
    /\ IdleMeta
    /\ IdleTrain
    /\ image_width \in 0..MaxWidth
    /\ image_height \in 0..MaxHeight
    /\ batchsize \in 1..MaxBatch
    /\ coords_it = [y |-> 0, x |-> 0]
    /\ yielded = <<>>
    /\ returned = FALSE

\* The consumer asks for the next batch and the generator yields one.
QueryYield ==
    /\ ~returned
    /\ LET r == islice(coords_it, batchsize, image_width, image_height)
       IN  /\ Len(r.out) # 0
           /\ coords_it' = r.it
           /\ yielded' = Append(yielded, batch_of(r.out))
    /\ UNCHANGED <<image_width, image_height, batchsize, returned>>
    /\ UNCHANGED <<varsImage, varsStats, varsCats>>
    /\ UNCHANGED <<varsOrd, varsMeta, varsTrain>>

\* The consumer asks for the next batch and the generator returns.
QueryReturn ==
    /\ ~returned
    /\ LET r == islice(coords_it, batchsize, image_width, image_height)
       IN  /\ Len(r.out) = 0
           /\ coords_it' = r.it
           /\ returned' = TRUE
    /\ UNCHANGED <<image_width, image_height, batchsize, yielded>>
    /\ UNCHANGED <<varsImage, varsStats, varsCats>>
    /\ UNCHANGED <<varsOrd, varsMeta, varsTrain>>

NextQuery == QueryYield \/ QueryReturn

SpecQuery == InitQuery /\ [][NextQuery]_vars

(***************************************************************************)
(* Exact arithmetic for the statistics: a number is a fraction <<n, d>> in *)
(* lowest terms with d > 0.  The code computes in 64-bit floats; the model *)
(* computes the same expressions without rounding.                         *)
(***************************************************************************)
Abs(x) == IF x < 0 THEN 0 - x ELSE x

RECURSIVE GCD(_, _)
GCD(a, b) == IF b = 0 THEN a ELSE GCD(b, a % b)

Rat(n, d) ==
    LET g == GCD(Abs(n), Abs(d))
        sgn == IF d < 0 THEN 0 - 1 ELSE 1
    IN  <<(sgn * n) \div g, (sgn * d) \div g>>

RInt(n) == <<n, 1>>
RAdd(a, b) == Rat(a[1] * b[2] + b[1] * a[2], a[2] * b[2])
RSub(a, b) == Rat(a[1] * b[2] - b[1] * a[2], a[2] * b[2])
RMul(a, b) == Rat(a[1] * b[1], a[2] * b[2])
RDiv(a, b) == Rat(a[1] * b[2], a[2] * b[1])

(***************************************************************************)
(* _to_masked: the mask of band i is array[..., i] == m when the missing   *)
(* value m of the band is truthy ("if m:"), and all False otherwise.       *)
(* None and 0 are the falsy missing values.                                *)
(***************************************************************************)
OrdBands == 1..2
OrdValues == {0, 1, 3}
MissingValues == {None, Some(0), Some(3)}

\* bool(m)
Truthy(m) == m # None /\ m[1] # 0

NotNone(m) == m # None

to_masked(array, missing_values) ==
    [data |-> array,
     mask |-> [r \in 1..Len(array) |->
                 [i \in OrdBands |->
                     IF Truthy(missing_values[i])
                     THEN array[r][i] = missing_values[i][1]
                     ELSE FALSE]]]

(***************************************************************************)
(* np.ma.count, np.ma.mean and np.ma.var(ddof=0) along axis 0, for band i  *)
(* of a masked block with at least one unmasked value in the band.         *)
(***************************************************************************)
ma_count(a, i) == Cardinality({r \in 1..Len(a.data) : ~a.mask[r][i]})

\* The sum of f[r], a fraction, over the unmasked rows r >= from of band i.
RECURSIVE MaskedSum(_, _, _, _)
MaskedSum(a, i, f, from) ==
    IF from > Len(a.data) THEN RInt(0)
    ELSE RAdd(IF a.mask[from][i] THEN RInt(0) ELSE f[from],
              MaskedSum(a, i, f, from + 1))

ma_mean(a, i) ==
    RDiv(MaskedSum(a, i, [r \in 1..Len(a.data) |-> RInt(a.data[r][i])], 1),
         RInt(ma_count(a, i)))

ma_var(a, i) ==
    LET mu == ma_mean(a, i)
        dev2 == [r \in 1..Len(a.data) |->
                    LET d == RSub(RInt(a.data[r][i]), mu) IN RMul(d, d)]
    IN  RDiv(MaskedSum(a, i, dev2, 1), RInt(ma_count(a, i)))

(***************************************************************************)
(* _Statistics.  The code keeps three arrays over the bands (_mean, _m2,   *)
(* _n) and updates them elementwise; the model keeps, for each band, the   *)
(* record of its three entries.                                            *)
(***************************************************************************)
\* __init__
NewStatistics == [i \in OrdBands |-> [mean |-> RInt(0), m2 |-> RInt(0), n |-> 0]]

\* self._m2 += new_m2 + (delta * self._n * delta_mean)
merged_m2_no_n(m2, new_m2, delta, n, delta_mean) ==
    RAdd(m2, RAdd(new_m2, RMul(delta, delta_mean)))

merged_m2(m2, new_m2, delta, n, delta_mean) ==
    RAdd(m2, RAdd(new_m2, RMul(RMul(delta, RInt(n)), delta_mean)))

\* update, for a block that passed its assertions: entry i of the arrays
update_band(acc, array, i) ==
    LET new_n == ma_count(array, i)
        new_mean == ma_mean(array, i)
        new_m2 == RMul(ma_var(array, i), RInt(new_n))
        delta == RSub(new_mean, acc.mean)
        delta_mean == RMul(delta, Rat(new_n, new_n + acc.n))
    IN  [mean |-> RAdd(acc.mean, delta_mean),
         m2 |-> merged_m2(acc.m2, new_m2, delta, acc.n, delta_mean),
         n |-> acc.n + new_n]

update(st, array) == [i \in OrdBands |-> update_band(st[i], array, i)]

\* assert np.all(self._n > 1), of the mean and variance properties
readable_any(st) == \E i \in OrdBands : st[i].n > 1

readable(st) == \A i \in OrdBands : st[i].n > 1

\* The mean property, past its assertion.
mean(st) == [i \in OrdBands |-> st[i].mean]

\* The variance property, past its assertion.
variance(st) == [i \in OrdBands |-> RDiv(st[i].m2, RInt(st[i].n))]

(***************************************************************************)
(* The accumulator as _get_stats drives it: every block is reshaped to     *)
(* (samples, bands), masked by _to_masked and accumulated.  mean and       *)
(* variance can be read at any time, on a fresh accumulator too; they      *)
(* change nothing, so the model follows a run up to its first read.  A     *)
(* failed assertion ends the run as it ends _get_stats.  Blocks with a     *)
(* band that is masked throughout are left out: numpy's mean of such a     *)
(* band is itself masked.  _to_masked, a pure function, is also called on  *)
(* its own, on any array.                                                  *)
(***************************************************************************)
Accumulating == stat_call.op \in {"init", "update"}
                    /\ stat_call.raised = "none"

SampleBlocks ==
    UNION {[1..k -> [OrdBands -> OrdValues]] : k \in 1..MaxSamples}

InitStats ==
    /\ IdleImage
    /\ IdleQuery
    /\ IdleCats
    /\ IdleOrd
    /\ IdleMeta
    /\ IdleTrain
    /\ ordinal_missing \in [OrdBands -> MissingValues]
    /\ stats = NewStatistics
    /\ bm = <<>>
    /\ seen = [i \in OrdBands |-> [v \in OrdValues |-> 0]]
    /\ nupdates = 0
    /\ nsamples = 0
    /\ stat_call = [op |-> "init", raised |-> "none", value |-> <<>>]

\* stats.update(_to_masked(bs, missing_values)) on a block of more than one
\* sample
StatsUpdate ==
    /\ Accumulating
    /\ \E bs \in SampleBlocks :
          LET masked == to_masked(bs, ordinal_missing)
          IN  /\ nsamples + Len(bs) <= MaxTotal
              /\ nsamples' = nsamples + Len(bs)
              /\ Len(bs) > 1
              /\ \A i \in OrdBands : ma_count(masked, i) >= 1
              /\ stats' = update(stats, masked)
              /\ seen' = [i \in OrdBands |-> [v \in OrdValues |->
                            seen[i][v] + Cardinality(
                                {r \in 1..Len(bs) :
                                    ~masked.mask[r][i] /\ bs[r][i] = v})]]
    /\ nupdates' = nupdates + 1
    /\ stat_call' = [op |-> "update", raised |-> "none", value |-> <<>>]
    /\ UNCHANGED <<ordinal_missing, bm, varsImage, varsQuery, varsCats>>
    /\ UNCHANGED <<varsOrd, varsMeta, varsTrain>>

\* stats.update on a block of one sample: assert array.shape[0] > 1 fails.
StatsUpdateRejected ==
    /\ Accumulating
    /\ \E bs \in SampleBlocks : ~(Len(bs) > 1)
    /\ stat_call' = [op |-> "update", raised |-> "AssertionError",
                     value |-> <<>>]
    /\ UNCHANGED <<ordinal_missing, stats, bm, seen, nupdates, nsamples>>
    /\ UNCHANGED <<varsImage, varsQuery, varsCats>>
    /\ UNCHANGED <<varsOrd, varsMeta, varsTrain>>

\* stats.mean
ReadMean ==
    /\ Accumulating
    /\ stat_call' =
          IF readable(stats)
          THEN [op |-> "mean", raised |-> "none", value |-> mean(stats)]
          ELSE [op |-> "mean", raised |-> "AssertionError", value |-> <<>>]
    /\ UNCHANGED <<ordinal_missing, stats, bm, seen, nupdates, nsamples>>
    /\ UNCHANGED <<varsImage, varsQuery, varsCats>>
    /\ UNCHANGED <<varsOrd, varsMeta, varsTrain>>

\* stats.variance
ReadVariance ==
    /\ Accumulating
    /\ stat_call' =
          IF readable(stats)
          THEN [op |-> "variance", raised |-> "none",
                value |-> variance(stats)]
          ELSE [op |-> "variance", raised |-> "AssertionError",
                value |-> <<>>]
    /\ UNCHANGED <<ordinal_missing, stats, bm, seen, nupdates, nsamples>>
    /\ UNCHANGED <<varsImage, varsQuery, varsCats>>
    /\ UNCHANGED <<varsOrd, varsMeta, varsTrain>>

\* _to_masked(array, ordinal_missing) on any array of the block's layout,
\* (..., bands), here (samples, bands).
ToMasked ==
    /\ stat_call.op = "init"
    /\ \E array \in SampleBlocks : bm' = to_masked(array, ordinal_missing)
    /\ stat_call' = [op |-> "_to_masked", raised |-> "none", value |-> <<>>]
    /\ UNCHANGED <<ordinal_missing, stats, seen, nupdates, nsamples>>
    /\ UNCHANGED <<varsImage, varsQuery, varsCats>>
    /\ UNCHANGED <<varsOrd, varsMeta, varsTrain>>

NextStats ==
    \/ StatsUpdate
    \/ StatsUpdateRejected
    \/ ReadMean
    \/ ReadVariance
    \/ ToMasked

SpecStats == InitStats /\ [][NextStats]_vars

(***************************************************************************)
(* _Categories.  A band's _values is a set and its _maps a dict, kept here *)
(* as the sequence of its (key, value) items in insertion order, the order *)
(* in which a dict is iterated.  Images are one pixel wide: a block is a   *)
(* sequence of rows, a row the tuple of the band values of its pixel.      *)
(***************************************************************************)
CatBands == {1}
CatValues == {0 - 1, 0, 1}
MissingCats == {None, Some(0 - 1), Some(0)}

\* hash() of an integer: the value, but for -1
py_hash(v) == IF v = 0 - 1 THEN 0 - 2 ELSE v

\* The order in which CPython iterates a set of up to four integers: by
\* slot, hash & 7, of its table of eight slots.  No two values of
\* CatValues share a slot.
RECURSIVE set_iter(_)
set_iter(S) ==
    IF S = {} THEN <<>>
    ELSE LET v == CHOOSE x \in S :
                      \A y \in S : py_hash(x) % 8 <= py_hash(y) % 8
         IN  <<v>> \o set_iter(S \ {v})

\* The ascending order of np.unique.
RECURSIVE ascending(_)
ascending(S) ==
    IF S = {} THEN <<>>
    ELSE LET v == CHOOSE x \in S : \A y \in S : x <= y
         IN  <<v>> \o ascending(S \ {v})

\* zip(a, b)
zip(a, b) == [k \in 1..Min(Len(a), Len(b)) |-> <<a[k], b[k]>>]

Keys(items) == {items[k][1] : k \in 1..Len(items)}

\* d.update(pairs): a key that is present keeps its place and takes the new
\* value, a key that is not is appended.
RECURSIVE dict_update(_, _)
dict_update(items, pairs) ==
    IF pairs = <<>> THEN items
    ELSE LET kv == Head(pairs)
             put == IF kv[1] \in Keys(items)
                    THEN [k \in 1..Len(items) |->
                            IF items[k][1] = kv[1] THEN kv ELSE items[k]]
                    ELSE Append(items, kv)
         IN  dict_update(put, Tail(pairs))

\* __init__
NewCategories(missing_values) ==
    [i \in CatBands |->
        IF missing_values[i] # None
        THEN [values |-> {missing_values[i][1]},
              maps |-> <<(<<missing_values[i][1], 0>>)>>]
        ELSE [values |-> {}, maps |-> <<>>]]

\* update, lines 33 to 39: the table of a band after it has seen the band's
\* values in the block
observe_all_new(cat, data) ==
    LET unique_vals == {data[r] : r \in 1..Len(data)}
        new_values == unique_vals
        nstart == Cardinality(cat.values)
        nstop == nstart + Cardinality(new_values) + 1
        new_indices == [k \in 1..(nstop - nstart) |-> nstart + k - 1]
    IN  [values |-> cat.values \cup new_values,
         maps |-> dict_update(cat.maps, zip(set_iter(new_values),
                                            new_indices))]

observe_skipping(cat, data) ==
    LET unique_vals == {data[r] : r \in 1..Len(data)}
        new_values == unique_vals \ cat.values
        nstart == Cardinality(cat.values) + 1
        nstop == nstart + Cardinality(new_values) + 1
        new_indices == [k \in 1..(nstop - nstart) |-> nstart + k - 1]
    IN  [values |-> cat.values \cup new_values,
         maps |-> dict_update(cat.maps, zip(set_iter(new_values),
                                            new_indices))]

observe(cat, data) ==
    LET unique_vals == {data[r] : r \in 1..Len(data)}
        new_values == unique_vals \ cat.values
        nstart == Cardinality(cat.values)
        nstop == nstart + Cardinality(new_values) + 1
        new_indices == [k \in 1..(nstop - nstart) |-> nstart + k - 1]
    IN  [values |-> cat.values \cup new_values,
         maps |-> dict_update(cat.maps, zip(set_iter(new_values),
                                            new_indices))]

\* update, lines 41 and 42: for every item (k, v) of the dict in turn, the
\* positions that now hold k are set to v
RECURSIVE recode(_, _)
recode(column, items) ==
    IF items = <<>> THEN column
    ELSE LET k == Head(items)[1]
             v == Head(items)[2]
         IN  recode([r \in 1..Len(column) |->
                        IF column[r] = k THEN v ELSE column[r]],
                    Tail(items))

\* update, band by band from band i on: the encoder and the copy of the
\* block after it, or after the assertion that failed
RECURSIVE update_from(_, _, _, _, _)
update_from(i, cs, new_array, array, maxcat) ==
    IF i \notin CatBands
    THEN [cats |-> cs, new_array |-> new_array, raised |-> "none"]
    ELSE LET cat == observe(cs[i], [r \in 1..Len(array) |-> array[r][i]])
             seen_i == [cs EXCEPT ![i] = cat]
             column == recode([r \in 1..Len(array) |-> new_array[r][i]],
                              cat.maps)
         IN  IF ~(Cardinality(cat.values) < maxcat)
             THEN [cats |-> seen_i, new_array |-> new_array,
                   raised |-> "AssertionError"]
             ELSE update_from(i + 1, seen_i,
                              [r \in 1..Len(array) |->
                                  [new_array[r] EXCEPT ![i] = column[r]]],
                              array, maxcat)

categories_update(cs, array, maxcat) == update_from(1, cs, array, array, maxcat)

\* The maps property: of each band, its keys sorted by their code.
RECURSIVE sorted_by_code(_)
sorted_by_code(items) ==
    IF items = <<>> THEN <<>>
    ELSE LET k == CHOOSE j \in 1..Len(items) :
                      /\ \A l \in 1..Len(items) : items[j][2] <= items[l][2]
                      /\ \A l \in 1..(j - 1) : items[l][2] # items[j][2]
         IN  <<items[k][1]>> \o
                 sorted_by_code([l \in 1..(Len(items) - 1) |->
                                    IF l < k THEN items[l] ELSE items[l + 1]])

maps(cs) == [i \in CatBands |-> sorted_by_code(cs[i].maps)]

(***************************************************************************)
(* _categorical_write over a source of blocks, and the attributes that     *)
(* write_datafile sets from what it returns.                               *)
(***************************************************************************)
CatBlocks ==
    UNION {[1..h -> [CatBands -> CatValues]] : h \in 1..MaxBlockRows}

RECURSIVE Rows(_)
Rows(blocks) ==
    IF blocks = <<>> THEN <<>> ELSE Head(blocks) \o Rows(Tail(blocks))

RECURSIVE SourcesOf(_)
SourcesOf(rows) ==
    IF rows = 0 THEN {<<>>}
    ELSE UNION {{<<b>> \o rest : rest \in SourcesOf(rows - Len(b))} :
                   b \in {c \in CatBlocks : Len(c) <= rows}}

CatSources == UNION {SourcesOf(n) : n \in 0..MaxImageRows}

\* A row of the destination that has not been written.
Unwritten == <<>>

Init ==
    /\ IdleImage
    /\ IdleQuery
    /\ IdleStats
    /\ IdleOrd
    /\ IdleMeta
    /\ IdleTrain
    /\ categorical_missing \in [CatBands -> MissingCats]
    /\ max_categories \in {2, 3, DefaultMaxCategories}
    /\ cat_source \in CatSources
    /\ cats = NewCategories(categorical_missing)
    /\ pulled = 0
    /\ new_b = <<>>
    /\ cat_array = [r \in 1..Len(Rows(cat_source)) |-> Unwritten]
    /\ start_idx = 0
    /\ cat_pc = "writing"
    /\ cat_attrs = <<>>

\* array[start_idx:end_idx] = block
write_rows_from_top(array, start, end, block) ==
    [r \in 1..Len(array) |->
        IF r <= end - start THEN block[r] ELSE array[r]]

write_rows(array, start, end, block) ==
    [r \in 1..Len(array) |->
        IF start < r /\ r <= end THEN block[r - start] ELSE array[r]]

\* One turn of the loop: the next block is pulled, recoded and written.
CatWriteBlock ==
    /\ cat_pc = "writing"
    /\ pulled < Len(cat_source)
    /\ LET b == cat_source[pulled + 1]
           u == categories_update(cats, b, max_categories)
           end_idx == start_idx + Len(b)
       IN  /\ u.raised = "none"
           /\ cats' = u.cats
           /\ new_b' = u.new_array
           /\ cat_array' = write_rows(cat_array, start_idx, end_idx,
                                      u.new_array)
           /\ start_idx' = end_idx
    /\ pulled' = pulled + 1
    /\ UNCHANGED <<categorical_missing, max_categories, cat_source, cat_pc,
                   cat_attrs>>
    /\ UNCHANGED <<varsImage, varsQuery, varsStats>>
    /\ UNCHANGED <<varsOrd, varsMeta, varsTrain>>

\* One turn of the loop in which update fails its assertion: the pass ends.
CatUpdateFails ==
    /\ cat_pc = "writing"
    /\ pulled < Len(cat_source)
    /\ LET b == cat_source[pulled + 1]
           u == categories_update(cats, b, max_categories)
       IN  /\ u.raised # "none"
           /\ cats' = u.cats
    /\ pulled' = pulled + 1
    /\ cat_pc' = "failed"
    /\ UNCHANGED <<categorical_missing, max_categories, cat_source, new_b,
                   cat_array, start_idx, cat_attrs>>
    /\ UNCHANGED <<varsImage, varsQuery, varsStats>>
    /\ UNCHANGED <<varsOrd, varsMeta, varsTrain>>

\* The source is exhausted: _categorical_write returns cats.maps and
\* write_datafile sets the attributes of the array.
CatWriteDone ==
    /\ cat_pc = "writing"
    /\ pulled = Len(cat_source)
    /\ cat_pc' = "done"
    /\ cat_attrs' =
          [mappings |-> maps(cats),
           ncategories |-> [i \in CatBands |-> Len(maps(cats)[i])],
           missing_values |-> [i \in CatBands |-> 0]]
    /\ UNCHANGED <<categorical_missing, max_categories, cat_source, cats,
                   pulled, new_b, cat_array, start_idx>>
    /\ UNCHANGED <<varsImage, varsQuery, varsStats>>
    /\ UNCHANGED <<varsOrd, varsMeta, varsTrain>>

Next == CatWriteBlock \/ CatUpdateFails \/ CatWriteDone

Spec == Init /\ [][Next]_vars

(***************************************************************************)
(* The ordinal part of write_datafile: with standardise, _get_stats over   *)
(* the source and then _standardise_write over it again; without, _write.  *)
(* Images are one pixel wide, as above, so a block is already of shape     *)
(* (samples, bands).  The statistics are the exact ones of _Statistics.    *)
(* An entry that _standardise_write writes is kept as the pair of num and  *)
(* root that stands for num / sqrt(root): the code's float division by a   *)
(* square root, not rounded.  With standardise, the sources have an        *)
(* unmasked value of every band in every block, as in the runs of the      *)
(* accumulator above.                                                      *)
(***************************************************************************)
OrdPixels == {<<0, 1>>, <<1, 3>>, <<3, 0>>}

OrdBlocks == UNION {[1..h -> OrdPixels] : h \in 1..MaxBlockRows}

RECURSIVE OrdSourcesOf(_)
OrdSourcesOf(rows) ==
    IF rows = 0 THEN {<<>>}
    ELSE UNION {{<<b>> \o rest : rest \in OrdSourcesOf(rows - Len(b))} :
                   b \in {blk \in OrdBlocks : Len(blk) <= rows}}

OrdSources == UNION {OrdSourcesOf(n) : n \in 0..MaxImageRows}

\* bm -= mean: numpy subtracts 0 where bm is masked
isub(a, mu) ==
    [data |-> [r \in 1..Len(a.data) |-> [i \in OrdBands |->
                  IF a.mask[r][i] THEN RInt(a.data[r][i])
                  ELSE RSub(RInt(a.data[r][i]), mu[i])]],
     mask |-> a.mask]

\* bm /= np.sqrt(variance): numpy divides by 1 where bm is masked and where
\* the divisor is 0, and masks the latter
itruediv_sqrt(a, var) ==
    [data |-> [r \in 1..Len(a.data) |-> [i \in OrdBands |->
                  IF a.mask[r][i] \/ var[i] = RInt(0)
                  THEN [num |-> a.data[r][i], root |-> RInt(1)]
                  ELSE [num |-> a.data[r][i], root |-> var[i]]]],
     mask |-> [r \in 1..Len(a.data) |-> [i \in OrdBands |->
                  a.mask[r][i] \/ var[i] = RInt(0)]]]

InitOrd ==
    /\ IdleImage
    /\ IdleQuery
    /\ IdleCats
    /\ IdleMeta
    /\ IdleTrain
    /\ standardise \in BOOLEAN
    /\ ordinal_missing \in [OrdBands -> MissingValues]
    /\ ord_source \in OrdSources
    /\ standardise =>
          \A k \in 1..Len(ord_source) : \A i \in OrdBands :
              ma_count(to_masked(ord_source[k], ordinal_missing), i) >= 1
    /\ stats = NewStatistics
    /\ bm = <<>>
    /\ seen = <<>>
    /\ nupdates = 0
    /\ nsamples = 0
    /\ stat_call = <<>>
    /\ ord_pc = IF standardise THEN "stats" ELSE "write"
    /\ ord_pulled = 0
    /\ ord_array = [r \in 1..Len(Rows(ord_source)) |-> Unwritten]
    /\ ord_start_idx = 0
    /\ ord_attrs = [mean |-> None, variance |-> None]

\* _get_stats, one turn of the loop: the next block is masked and
\* accumulated.
OrdStatsBlock ==
    /\ ord_pc = "stats"
    /\ ord_pulled < Len(ord_source)
    /\ LET bs == ord_source[ord_pulled + 1]
       IN  /\ Len(bs) > 1
           /\ bm' = to_masked(bs, ordinal_missing)
           /\ stats' = update(stats, bm')
    /\ ord_pulled' = ord_pulled + 1
    /\ UNCHANGED <<standardise, ord_source, ord_pc, ord_array,
                   ord_start_idx, ord_attrs>>
    /\ UNCHANGED <<ordinal_missing, seen, nupdates, nsamples, stat_call>>
    /\ UNCHANGED <<varsImage, varsQuery, varsCats, varsMeta, varsTrain>>

\* _get_stats, a turn of the loop on a block of one sample: update fails
\* its assertion.
OrdStatsRejected ==
    /\ ord_pc = "stats"
    /\ ord_pulled < Len(ord_source)
    /\ LET bs == ord_source[ord_pulled + 1]
       IN  /\ ~(Len(bs) > 1)
           /\ bm' = to_masked(bs, ordinal_missing)
    /\ ord_pulled' = ord_pulled + 1
    /\ ord_pc' = "failed"
    /\ UNCHANGED <<standardise, ord_source, ord_array, ord_start_idx,
                   ord_attrs>>
    /\ UNCHANGED <<ordinal_missing, stats, seen, nupdates, nsamples,
                   stat_call>>
    /\ UNCHANGED <<varsImage, varsQuery, varsCats, varsMeta, varsTrain>>

\* _get_stats returns stats.mean and stats.variance, write_datafile stores
\* them and calls _standardise_write; or the read fails its assertion.
OrdStatsDone ==
    /\ ord_pc = "stats"
    /\ ord_pulled = Len(ord_source)
    /\ IF readable(stats)
       THEN /\ ord_attrs' = [mean |-> Some(mean(stats)),
                             variance |-> Some(variance(stats))]
            /\ ord_pc' = "write"
            /\ ord_pulled' = 0
       ELSE /\ ord_pc' = "failed"
            /\ UNCHANGED <<ord_attrs, ord_pulled>>
    /\ UNCHANGED <<standardise, ord_source, ord_array, ord_start_idx>>
    /\ UNCHANGED <<varsImage, varsQuery, varsStats, varsCats, varsMeta,
                   varsTrain>>

\* _standardise_write, one turn of the loop.
OrdStandardiseBlock ==
    /\ ord_pc = "write"
    /\ standardise
    /\ ord_pulled < Len(ord_source)
    /\ LET b == ord_source[ord_pulled + 1]
           end_idx == ord_start_idx + Len(b)
       IN  /\ bm' = itruediv_sqrt(isub(to_masked(b, ordinal_missing),
                                       ord_attrs.mean[1]),
                                  ord_attrs.variance[1])
           /\ ord_array' = write_rows(ord_array, ord_start_idx, end_idx,
                                      bm'.data)
           /\ ord_start_idx' = end_idx
    /\ ord_pulled' = ord_pulled + 1
    /\ UNCHANGED <<standardise, ord_source, ord_pc, ord_attrs>>
    /\ UNCHANGED <<ordinal_missing, stats, seen, nupdates, nsamples,
                   stat_call>>
    /\ UNCHANGED <<varsImage, varsQuery, varsCats, varsMeta, varsTrain>>

\* _write, one turn of the loop.
OrdWriteBlock ==
    /\ ord_pc = "write"
    /\ ~standardise
    /\ ord_pulled < Len(ord_source)
    /\ LET b == ord_source[ord_pulled + 1]
           end_idx == ord_start_idx + Len(b)
       IN  /\ ord_array' = write_rows(ord_array, ord_start_idx, end_idx, b)
           /\ ord_start_idx' = end_idx
    /\ ord_pulled' = ord_pulled + 1
    /\ UNCHANGED <<standardise, ord_source, ord_pc, ord_attrs>>
    /\ UNCHANGED <<varsImage, varsQuery, varsStats, varsCats, varsMeta,
                   varsTrain>>

\* The source is exhausted: the write pass returns.
OrdWriteDone ==
    /\ ord_pc = "write"
    /\ ord_pulled = Len(ord_source)
    /\ ord_pc' = "done"
    /\ UNCHANGED <<standardise, ord_source, ord_pulled, ord_array,
                   ord_start_idx, ord_attrs>>
    /\ UNCHANGED <<varsImage, varsQuery, varsStats, varsCats, varsMeta,
                   varsTrain>>

NextOrd ==
    \/ OrdStatsBlock
    \/ OrdStatsRejected
    \/ OrdStatsDone
    \/ OrdStandardiseBlock
    \/ OrdWriteBlock
    \/ OrdWriteDone

SpecOrd == InitOrd /\ [][NextOrd]_vars

(***************************************************************************)
(* A write pass of write_datafile, any of the three: the categorical pass  *)
(* or the ordinal one, each over its own source.                           *)
(***************************************************************************)
InitPasses == Init \/ InitOrd

NextPasses == Next \/ NextOrd

SpecPasses == InitPasses /\ [][NextPasses]_vars

(***************************************************************************)
(* FeatureSetMetadata.  An argument is None or the metadata of a stack, of *)
(* which the model keeps N, the number of points, and D, the number of     *)
(* bands.  A metadata object defines neither __bool__ nor __len__, so it   *)
(* is truthy; the image argument is stored as it is and is left out.       *)
(***************************************************************************)
StackMetadata == {Some([N |-> n, D |-> d]) : n \in 0..MaxN, d \in 1..MaxD}

\* assert ordinal.N == categorical.N
same_N_always(o, k) == TRUE

same_N(o, k) == o[1].N = k[1].N

\* __init__
FeatureSetMetadata(o, k) ==
    IF o = None /\ k = None
    THEN [raised |-> "AssertionError", value |-> <<>>]
    ELSE IF o # None /\ ~(k # None)
    THEN [raised |-> "none",
          value |-> [N |-> o[1].N, ordinal |-> o, categorical |-> k]]
    ELSE IF k # None /\ ~(o # None)
    THEN [raised |-> "none",
          value |-> [N |-> k[1].N, ordinal |-> o, categorical |-> k]]
    ELSE IF k # None /\ o # None
    THEN IF same_N(o, k)
         THEN [raised |-> "none",
               value |-> [N |-> o[1].N, ordinal |-> o, categorical |-> k]]
         ELSE [raised |-> "AssertionError", value |-> <<>>]
    ELSE [raised |-> "ValueError", value |-> <<>>]

InitMeta ==
    /\ IdleImage
    /\ IdleQuery
    /\ IdleStats
    /\ IdleCats
    /\ IdleOrd
    /\ IdleTrain
    /\ ordinal \in StackMetadata \cup {None}
    /\ categorical \in StackMetadata \cup {None}
    /\ feature_set = <<>>
    /\ meta_raised = "not called"

\* FeatureSetMetadata(ordinal, categorical, image)
Construct ==
    /\ meta_raised = "not called"
    /\ LET r == FeatureSetMetadata(ordinal, categorical)
       IN  /\ feature_set' = r.value
           /\ meta_raised' = r.raised
    /\ UNCHANGED <<ordinal, categorical>>
    /\ UNCHANGED <<varsImage, varsQuery, varsStats, varsCats, varsOrd,
                   varsTrain>>

NextMeta == Construct

SpecMeta == InitMeta /\ [][NextMeta]_vars

(***************************************************************************)
(* coords_training: a generator over the rows of coords, batchsize rows at *)
(* a time, each batch converted by world_to_image, x with x_pixel_array    *)
(* and y with y_pixel_array.  A row of coords is the pair (x, y).          *)
(***************************************************************************)
TrainEdges == {<<0, 1, 2>>, <<2, 1, 0>>}
TrainPoints == {<<0, 0>>, <<1, 2>>, <<2, 1>>, <<3, 1>>}

\* a[start:stop], for 0 <= start
slice(a, start, stop) == SubSeq(a, start + 1, Min(stop, Len(a)))

\* c += batchsize
next_c_by_one(cur, size) == cur + 1

next_c(cur, size) == cur + size

\* One turn of the loop from c = cur: the c it leaves behind and what it
\* yields, or the exception world_to_image raised.
training_batch(cur) ==
    LET n == Len(coords)
        start == cur
        stop == Min(cur + train_batchsize, n)
        out == slice(coords, start, stop)
        coords_x == [k \in 1..Len(out) |-> out[k][1]]
        coords_y == [k \in 1..Len(out) |-> out[k][2]]
        im_coords_x == world_to_image(coords_x, x_pixel_array)
        im_coords_y == world_to_image(coords_y, y_pixel_array)
    IN  [c |-> next_c(cur, train_batchsize),
         raised |-> IF im_coords_x.raised # "none" THEN im_coords_x.raised
                    ELSE im_coords_y.raised,
         value |-> <<im_coords_x.value, im_coords_y.value>>]

InitTrain ==
    /\ IdleImage
    /\ IdleQuery
    /\ IdleStats
    /\ IdleCats
    /\ IdleOrd
    /\ IdleMeta
    /\ coords \in SeqsUpTo(TrainPoints, MaxTrain)
    /\ x_pixel_array \in TrainEdges
    /\ y_pixel_array \in TrainEdges
    /\ train_batchsize \in 1..MaxTrainBatch
    /\ train_c = 0
    /\ train_yielded = <<>>
    /\ train_pc = "running"

\* The consumer asks for the next batch and the generator yields one.
TrainYield ==
    /\ train_pc = "running"
    /\ train_c < Len(coords)
    /\ LET b == training_batch(train_c)
       IN  /\ b.raised = "none"
           /\ train_c' = b.c
           /\ train_yielded' = Append(train_yielded, b.value)
    /\ UNCHANGED <<coords, x_pixel_array, y_pixel_array, train_batchsize,
                   train_pc>>
    /\ UNCHANGED <<varsImage, varsQuery, varsStats, varsCats, varsOrd,
                   varsMeta>>

\* The consumer asks for the next batch and world_to_image raises.
TrainRaise ==
    /\ train_pc = "running"
    /\ train_c < Len(coords)
    /\ LET b == training_batch(train_c)
       IN  /\ b.raised # "none"
           /\ train_c' = b.c
    /\ train_pc' = "raised"
    /\ UNCHANGED <<coords, x_pixel_array, y_pixel_array, train_batchsize,
                   train_yielded>>
    /\ UNCHANGED <<varsImage, varsQuery, varsStats, varsCats, varsOrd,
                   varsMeta>>

\* The consumer asks for the next batch and the generator returns.
TrainReturn ==
    /\ train_pc = "running"
    /\ ~(train_c < Len(coords))
    /\ train_pc' = "returned"
    /\ UNCHANGED <<coords, x_pixel_array, y_pixel_array, train_batchsize,
                   train_c, train_yielded>>
    /\ UNCHANGED <<varsImage, varsQuery, varsStats, varsCats, varsOrd,
                   varsMeta>>

NextTrain == TrainYield \/ TrainRaise \/ TrainReturn

SpecTrain == InitTrain /\ [][NextTrain]_vars

(***************************************************************************)
(* Claims about the coordinate mapper, checked under SpecImage.            *)
(***************************************************************************)
Max(a, b) == IF a >= b THEN a ELSE b
EdgeMin(a) == Min(a[1], a[Len(a)])
EdgeMax(a) == Max(a[1], a[Len(a)])
Converted == op \in {"world_to_image", "round_trip"}

\* C1: feeding image_to_world's result for in-range pixel indices back through
\* world_to_image returns exactly those indices, whatever the direction of
\* the edge array.
C1_RoundTripExact ==
    op = "round_trip" => raised = "none" /\ idx = indices

\* A round trip on a decreasing edge array through the first and the last
\* pixel.
C1_Witness ==
    /\ op = "round_trip"
    /\ Decreasing(edges)
    /\ Len(edges) >= 3
    /\ indices = <<Len(edges) - 2, 0>>
    /\ idx = indices

\* Pixel i holds x: x lies in the half-open interval that starts at edge i and
\* ends before edge i + 1, or x is the final edge and i the last pixel.
PixelHolds(pca, i, x) ==
    /\ i \in 0..(Len(pca) - 2)
    /\ IF x = pca[Len(pca)] THEN i = Len(pca) - 2
       ELSE IF pca[2] < pca[1]
            THEN pca[i + 1] >= x /\ x > pca[i + 2]
            ELSE pca[i + 1] <= x /\ x < pca[i + 2]

InExtent(pca, x) == EdgeMin(pca) <= x /\ x <= EdgeMax(pca)

\* C2: for points inside the image extent world_to_image returns, for each
\* point, the pixel whose half-open interval holds it, and the last pixel for
\* a point on the final edge.
C2_HalfOpenPixel ==
    (Converted /\ \A p \in 1..Len(points) : InExtent(edges, points[p]))
        => /\ raised = "none"
           /\ Len(idx) = Len(points)
           /\ \A p \in 1..Len(points) : PixelHolds(edges, idx[p], points[p])

\* A decreasing edge array, one point on its final edge and one strictly
\* inside a pixel.
C2_Witness ==
    /\ op = "world_to_image"
    /\ Decreasing(edges)
    /\ raised = "none"
    /\ Len(points) = 2
    /\ points[1] = edges[Len(edges)]
    /\ idx[1] = Len(edges) - 2
    /\ \A j \in 1..Len(edges) : points[2] # edges[j]
    /\ InExtent(edges, points[2])

\* C3: world_to_image returns only indices in 0 .. len(edges) - 2, and raises
\* ValueError when a point lies strictly outside the extent of the edges.
C3_RangeError ==
    Converted =>
        /\ raised = "none" =>
              \A p \in 1..Len(idx) : idx[p] \in 0..(Len(edges) - 2)
        /\ (\E p \in 1..Len(points) : ~InExtent(edges, points[p]))
              => raised = "ValueError"

\* A point below the smallest edge of a decreasing array, next to a point in
\* the image: the call raises.
C3_Witness ==
    /\ op = "world_to_image"
    /\ Decreasing(edges)
    /\ Len(points) = 2
    /\ InExtent(edges, points[1])
    /\ points[2] < EdgeMin(edges)
    /\ raised = "ValueError"

(***************************************************************************)
(* Claims about coords_query, checked under SpecQuery.                     *)
(***************************************************************************)
CeilDiv(a, b) == (a + b - 1) \div b

\* The (x, y) pairs of the batches, in the order yielded.
RECURSIVE PairsOf(_)
PairsOf(batches) ==
    IF batches = <<>> THEN <<>>
    ELSE LET b == Head(batches)
         IN  [k \in 1..Len(b.cx) |-> <<b.cx[k], b.cy[k]>>]
                 \o PairsOf(Tail(batches))

\* Every pixel of the grid once, rows outermost.
RowMajor(width, height) ==
    [k \in 1..(width * height) |-> <<(k - 1) % width, (k - 1) \div width>>]

NPixels == image_width * image_height

\* C4: coords_query yields ceil(width * height / batchsize) batches, all of
\* batchsize coordinates but possibly the last, which together list every
\* pixel once in row-major order, and then returns: while it has not returned
\* it can be resumed, and it never yields more than that many batches.
C4_QueryBatches ==
    /\ Len(yielded) <= CeilDiv(NPixels, batchsize)
    /\ \A b \in 1..Len(yielded) :
          /\ Len(yielded[b].cx) = Len(yielded[b].cy)
          /\ Len(yielded[b].cx) =
                 Min(batchsize, NPixels - (b - 1) * batchsize)
    /\ PairsOf(yielded) = SubSeq(RowMajor(image_width, image_height), 1,
                                 Len(PairsOf(yielded)))
    /\ ~returned => ENABLED NextQuery
    /\ returned =>
          /\ Len(yielded) = CeilDiv(NPixels, batchsize)
          /\ PairsOf(yielded) = RowMajor(image_width, image_height)

\* The spec's example: a 3 by 2 image read 4 at a time has returned after two
\* batches, the second one short.
C4_Witness ==
    /\ returned
    /\ image_width = 3 /\ image_height = 2 /\ batchsize = 4
    /\ Len(yielded) = 2
    /\ yielded[2].cx = <<1, 2>>
    /\ yielded[2].cy = <<1, 1>>

(***************************************************************************)
(* Claims about the statistics accumulator and the masking, checked under  *)
(* SpecStats.                                                              *)
(***************************************************************************)
RECURSIVE SumOver(_, _)
SumOver(S, f) ==
    IF S = {} THEN 0
    ELSE LET v == CHOOSE x \in S : TRUE IN f[v] + SumOver(S \ {v}, f)

\* Of the unmasked values accumulated for band i: how many, their sum and
\* the sum of their squares.
SeenCount(i) == SumOver(OrdValues, seen[i])
SeenSum(i) == SumOver(OrdValues, [v \in OrdValues |-> v * seen[i][v]])
SeenSumSq(i) == SumOver(OrdValues, [v \in OrdValues |-> v * v * seen[i][v]])

\* C5: after any sequence of updates, the accumulated mean is the arithmetic
\* mean, and the variance read (m2 / n) the population variance, of all the
\* unmasked values of the band, in exact arithmetic.
C5_MergedMoments ==
    \A i \in OrdBands :
        nupdates > 0 =>
            LET n == SeenCount(i)
            IN  /\ stats[i].n = n
                /\ mean(stats)[i] = Rat(SeenSum(i), n)
                /\ variance(stats)[i] =
                       Rat(n * SeenSumSq(i) - SeenSum(i) * SeenSum(i), n * n)

\* Two blocks merged, of four samples with three unmasked in band 1, and
\* those three not all equal.
C5_Witness ==
    /\ nupdates = 2
    /\ nsamples = 4
    /\ Truthy(ordinal_missing[1])
    /\ stats[1].n = 3
    /\ stats[1].mean[2] = 3
    /\ stats[1].m2 # RInt(0)

\* C6: reading mean or variance fails on its assertion exactly when some
\* band has accumulated at most one valid sample, as on a fresh accumulator,
\* and returns a value exactly when every band has more than one.
C6_ReadNeedsTwoSamples ==
    stat_call.op \in {"mean", "variance"} =>
        /\ stat_call.raised = "AssertionError"
              <=> \E i \in OrdBands : SeenCount(i) <= 1
        /\ stat_call.raised = "none"
              <=> \A i \in OrdBands : SeenCount(i) > 1
        /\ nupdates = 0 => stat_call.raised = "AssertionError"

\* After an update that left band 1 with one valid sample and band 2 with
\* two, reading the variance fails.
C6_Witness ==
    /\ stat_call.op = "variance"
    /\ stat_call.raised = "AssertionError"
    /\ nupdates = 1
    /\ SeenCount(1) = 1
    /\ SeenCount(2) = 2

\* C7: a value of band i is masked if and only if the band's missing value
\* is not None and the value equals it, whatever the missing value is, 0
\* included.  The code violates it: "if m:" skips a missing value of 0.
C7_MaskIsSentinelEquality ==
    bm # <<>> =>
        \A r \in 1..Len(bm.data) : \A i \in OrdBands :
            bm.mask[r][i] <=>
                (NotNone(ordinal_missing[i])
                    /\ bm.data[r][i] = ordinal_missing[i][1])

(***************************************************************************)
(* Claims about the category encoder and the categorical pass, checked     *)
(* under Spec.                                                             *)
(***************************************************************************)
\* The code the table assigns to a raw value that it holds.
Lookup(items, raw) ==
    LET k == CHOOSE j \in 1..Len(items) : items[j][1] = raw IN items[k][2]

\* An update has returned a block: the last block pulled was recoded.
Recoded == pulled > 0 /\ cat_pc # "failed"

\* C8: the block update returns is the table lookup of the block it was
\* given: every position holds the code the band's table now assigns to the
\* raw value there, and positions of different raw values hold different
\* codes.  The code violates it: the in-place replacement, one item of the
\* dict after the other, recodes again a position whose new code equals a
\* later key.
C8_ReturnedIsLookup ==
    Recoded =>
        LET b == cat_source[pulled]
        IN  \A i \in CatBands : \A r \in 1..Len(b) :
                /\ new_b[r][i] = Lookup(cats[i].maps, b[r][i])
                /\ \A q \in 1..Len(b) :
                      b[q][i] # b[r][i] => new_b[q][i] # new_b[r][i]

\* C9: every written position whose raw value is the band's missing value
\* (not None) holds 0, the value of the missing_values attribute.  The code
\* violates it, by the replacement of C8: the 0 written for the missing value
\* is recoded as the raw value 0.
C9_SentinelWrittenAsZero ==
    /\ \A i \in CatBands : \A r \in 1..start_idx :
          (categorical_missing[i] # None
              /\ Rows(cat_source)[r][i] = categorical_missing[i][1])
              => cat_array[r][i] = 0
    /\ cat_pc = "done" => \A i \in CatBands : cat_attrs.missing_values[i] = 0

\* The table the claim of C10 describes: the missing value first, then the
\* raw values block by block in the order of their first block, those new in
\* the same block in ascending order, numbered consecutively.
RECURSIVE NumberedAscending(_, _, _)
NumberedAscending(items, blocks, i) ==
    IF blocks = <<>> THEN items
    ELSE LET b == Head(blocks)
             fresh == ascending({b[r][i] : r \in 1..Len(b)} \ Keys(items))
         IN  NumberedAscending(
                 items \o [k \in 1..Len(fresh) |->
                              <<fresh[k], Len(items) + k - 1>>],
                 Tail(blocks), i)

\* C10: the codes are those of the numbering by first block and, within a
\* block, by ascending raw value.  The code violates it: the new values are
\* numbered in the iteration order of a set, which is not ascending.
C10_CodesByFirstBlockAscending ==
    \A i \in CatBands :
        cat_pc # "failed" =>
        cats[i].maps =
            NumberedAscending(NewCategories(categorical_missing)[i].maps,
                              SubSeq(cat_source, 1, pulled), i)

\* C11: a raw value that a band's table maps to code 0 is the band's missing
\* value, so a band without one (None) has no raw value with code 0.  The
\* code violates it: a band without a missing value starts with an empty
\* table and numbers its first raw value 0.
C11_ZeroIsSentinel ==
    \A i \in CatBands : \A k \in 1..Len(cats[i].maps) :
        cats[i].maps[k][2] = 0 =>
            /\ categorical_missing[i] # None
            /\ cats[i].maps[k][1] = categorical_missing[i][1]

\* C12: a band's missing value (not None) has code 0 in the band's table
\* before any block and after every update.
C12_SentinelStaysZero ==
    \A i \in CatBands :
        categorical_missing[i] # None =>
            /\ categorical_missing[i][1] \in Keys(cats[i].maps)
            /\ Lookup(cats[i].maps, categorical_missing[i][1]) = 0

\* Two updates have returned, of blocks that each held the missing value 0
\* and one of the other raw values.
C12_Witness ==
    /\ pulled = 2
    /\ cat_pc = "writing"
    /\ categorical_missing[1] = Some(0)
    /\ \A b \in 1..2 : \E r \in 1..Len(cat_source[b]) :
          cat_source[b][r][1] = 0
    /\ Len(cats[1].maps) = 3

\* C13: an update fails exactly when it leaves a band with more distinct
\* values, its missing value among them, than max_categories.  The code
\* violates it: it asserts that the count is less than max_categories, and
\* fails when the count reaches it.
C13_FailsBeyondCapacity ==
    pulled > 0 =>
        (cat_pc = "failed"
            <=> \E i \in CatBands :
                    Cardinality(cats[i].values) > max_categories)

\* Of each band: the items of the table are numbered 0, 1, ... in the order
\* they were inserted, no raw value twice, and the table holds the values
\* seen.
Dense ==
    \A i \in CatBands :
        /\ \A k \in 1..Len(cats[i].maps) : cats[i].maps[k][2] = k - 1
        /\ \A k, l \in 1..Len(cats[i].maps) :
              cats[i].maps[k][1] = cats[i].maps[l][1] => k = l
        /\ Keys(cats[i].maps) = cats[i].values

\* Of each band: the attributes written list the raw values by code.
Inverts ==
    cat_pc = "done" =>
        \A i \in CatBands :
            /\ cat_attrs.ncategories[i] = Len(cats[i].maps)
            /\ Len(cat_attrs.mappings[i]) = Len(cats[i].maps)
            /\ \A c \in 0..(Len(cats[i].maps) - 1) :
                  Lookup(cats[i].maps, cat_attrs.mappings[i][c + 1]) = c

\* A step leaves every item of every table where and as it was.
AppendOnly ==
    \A i \in CatBands :
        /\ Len(cats'[i].maps) >= Len(cats[i].maps)
        /\ \A k \in 1..Len(cats[i].maps) : cats'[i].maps[k] = cats[i].maps[k]

\* C17: the tables only grow, an update keeping every (raw value, code) pair
\* and giving the new raw values the next integers, so the codes of n raw
\* values are 0 .. n - 1, each once; the mappings written list the n raw
\* values by code and ncategories is n.
C17_AppendOnlyDense == [](Dense /\ Inverts) /\ [][AppendOnly]_vars

\* A pass of two blocks, each with a raw value the table did not hold, on a
\* band with a missing value: three codes are written.
C17_Witness ==
    /\ cat_pc = "done"
    /\ pulled = 2
    /\ categorical_missing[1] # None
    /\ Len(cats[1].maps) = 3
    /\ cat_attrs.ncategories[1] = 3
    /\ cat_attrs.mappings[1][1] = categorical_missing[1][1]

(***************************************************************************)
(* Claims about FeatureSetMetadata, checked under SpecMeta.                *)
(***************************************************************************)
\* C15: the construction of a feature set fails when neither stack is
\* supplied and when both are supplied with different sizes N; in every
\* other case it succeeds and the feature set has the size of the stack or
\* stacks supplied.
C15_AtLeastOneStack ==
    meta_raised # "not called" =>
        /\ (ordinal = None /\ categorical = None) => meta_raised # "none"
        /\ (ordinal # None /\ categorical # None
               /\ ordinal[1].N # categorical[1].N) => meta_raised # "none"
        /\ (ordinal # None /\ (categorical # None =>
                                  ordinal[1].N = categorical[1].N))
              => meta_raised = "none" /\ feature_set.N = ordinal[1].N
        /\ (categorical # None /\ (ordinal # None =>
                                      ordinal[1].N = categorical[1].N))
              => meta_raised = "none" /\ feature_set.N = categorical[1].N

\* Both stacks supplied, of two points each and of different numbers of
\* bands: the feature set has two points.
C15_Witness ==
    /\ meta_raised = "none"
    /\ ordinal = Some([N |-> 2, D |-> 1])
    /\ categorical = Some([N |-> 2, D |-> 2])
    /\ feature_set.N = 2

(***************************************************************************)
(* Claims about coords_training, checked under SpecTrain.                  *)
(***************************************************************************)
\* Every coordinate lies in the image.
InImage ==
    \A k \in 1..Len(coords) :
        /\ InExtent(x_pixel_array, coords[k][1])
        /\ InExtent(y_pixel_array, coords[k][2])

\* C18: over N coordinates in the image, coords_training yields
\* ceil(N / batchsize) batches and then returns; batch k holds the pixel
\* indices of the coordinates (k - 1) * batchsize + 1 .. min(k * batchsize,
\* N), in their order, so every batch but possibly the last has batchsize
\* entries and no coordinate is skipped or repeated.  While it has not
\* returned it can be resumed, and it never raises.
C18_TrainingBatches ==
    InImage =>
        LET n == Len(coords)
            size == train_batchsize
        IN  /\ train_pc # "raised"
            /\ Len(train_yielded) <= CeilDiv(n, size)
            /\ \A k \in 1..Len(train_yielded) :
                  LET len == Min(size, n - (k - 1) * size)
                  IN  /\ Len(train_yielded[k][1]) = len
                      /\ Len(train_yielded[k][2]) = len
                      /\ \A j \in 1..len :
                            LET xy == coords[(k - 1) * size + j]
                            IN  /\ PixelHolds(x_pixel_array,
                                              train_yielded[k][1][j], xy[1])
                                /\ PixelHolds(y_pixel_array,
                                              train_yielded[k][2][j], xy[2])
            /\ train_pc = "running" => ENABLED NextTrain
            /\ train_pc = "returned" =>
                  Len(train_yielded) = CeilDiv(n, size)

\* Three coordinates read two at a time, y on a decreasing edge array: the
\* generator has returned after two batches, the second of one coordinate.
C18_Witness ==
    /\ train_pc = "returned"
    /\ InImage
    /\ Len(coords) = 3
    /\ train_batchsize = 2
    /\ Decreasing(y_pixel_array)
    /\ Len(train_yielded) = 2
    /\ Len(train_yielded[2][1]) = 1

(***************************************************************************)
(* Claims about the ordinal pass, checked under SpecOrd.                   *)
(***************************************************************************)
\* The source value of band i at row r is the band's missing value.
SentinelAt(r, i) ==
    /\ NotNone(ordinal_missing[i])
    /\ Rows(ord_source)[r][i] = ordinal_missing[i][1]

\* f[1] + ... + f[n], of fractions
RECURSIVE RSum(_, _)
RSum(f, n) == IF n = 0 THEN RInt(0) ELSE RAdd(f[n], RSum(f, n - 1))

\* Of the entries written for band i at the rows that do not hold the
\* band's missing value: how many, the sum of their numerators and the sum
\* of the squares of their numerators.
Population(i) ==
    Cardinality({r \in 1..Len(ord_array) : ~SentinelAt(r, i)})

NumSum(i) ==
    RSum([r \in 1..Len(ord_array) |->
             IF SentinelAt(r, i) THEN RInt(0) ELSE ord_array[r][i].num],
         Len(ord_array))

NumSumSq(i) ==
    RSum([r \in 1..Len(ord_array) |->
             IF SentinelAt(r, i) THEN RInt(0)
             ELSE RMul(ord_array[r][i].num, ord_array[r][i].num)],
         Len(ord_array))

\* C14: with standardise, a written position whose source value is the
\* band's missing value holds that value, and every other position holds
\* (x - mean) / sqrt(variance) of the statistics stored for the band (where
\* the variance is not 0); once the pass is done, the entries at the
\* positions that do not hold the missing value have mean 0 and variance 1.
\* The code violates it for the missing value 0, which _to_masked does not
\* mask: the statistics count it and its positions are standardised.
C14_StandardisedButSentinel ==
    (standardise /\ ord_pc \in {"write", "done"}) =>
        \A i \in OrdBands :
            LET mu == ord_attrs.mean[1][i]
                var == ord_attrs.variance[1][i]
            IN  /\ \A r \in 1..ord_start_idx :
                      LET x == Rows(ord_source)[r][i]
                      IN  IF SentinelAt(r, i)
                          THEN ord_array[r][i] =
                                   [num |-> RInt(x), root |-> RInt(1)]
                          ELSE var # RInt(0) =>
                                   ord_array[r][i] =
                                       [num |-> RSub(RInt(x), mu),
                                        root |-> var]
                /\ (ord_pc = "done" /\ var # RInt(0)) =>
                      /\ NumSum(i) = RInt(0)
                      /\ NumSumSq(i) = RMul(RInt(Population(i)), var)

(***************************************************************************)
(* Claims about the write passes, checked under SpecPasses.                *)
(***************************************************************************)
\* The sum of the heights of the first k blocks.
RECURSIVE Heights(_, _)
Heights(blocks, k) ==
    IF k = 0 THEN 0 ELSE Heights(blocks, k - 1) + Len(blocks[k])

\* The rows written are the first start rows, start being the sum of the
\* heights of the blocks written.
WrittenUpTo(array, start, blocks, k) ==
    /\ start = Heights(blocks, k)
    /\ \A r \in 1..Len(array) : array[r] # Unwritten <=> r <= start

\* Every block pulled has been written, at the rows after those of the
\* blocks before it, and a pass that is done has written every row.
Contiguous ==
    /\ cat_pc \in {"writing", "done"} =>
          WrittenUpTo(cat_array, start_idx, cat_source, pulled)
    /\ cat_pc = "failed" =>
          WrittenUpTo(cat_array, start_idx, cat_source, pulled - 1)
    /\ cat_pc = "done" => start_idx = Len(cat_array)
    /\ ord_pc \in {"write", "done"} =>
          WrittenUpTo(ord_array, ord_start_idx, ord_source, ord_pulled)
    /\ ord_pc \in {"stats", "failed"} =>
          WrittenUpTo(ord_array, ord_start_idx, ord_source, 0)
    /\ ord_pc = "done" => ord_start_idx = Len(ord_array)
    /\ (ord_pc \in {"write", "done"} /\ ~standardise) =>
          \A r \in 1..ord_start_idx : ord_array[r] = Rows(ord_source)[r]

\* A step writes the rows start + 1 .. start + h of the destination, which
\* were not written, with the h rows of block, and no other row.
WritesAt(array, after, start, block) ==
    \A r \in 1..Len(array) :
        IF start < r /\ r <= start + Len(block)
        THEN array[r] = Unwritten /\ after[r] = block[r - start]
        ELSE after[r] = array[r]

\* A step that pulls block k in a write pass writes its transform at the
\* rows after those written; any other step writes nothing.
BlockByBlock ==
    /\ IF pulled' = pulled + 1 /\ cat_pc' # "failed"
       THEN /\ Len(new_b') = Len(cat_source[pulled + 1])
            /\ WritesAt(cat_array, cat_array', start_idx, new_b')
       ELSE cat_array' = cat_array
    /\ IF ord_pc = "write" /\ ord_pulled' = ord_pulled + 1
       THEN LET b == ord_source[ord_pulled + 1]
            IN  IF standardise
                THEN /\ Len(bm'.data) = Len(b)
                     /\ WritesAt(ord_array, ord_array', ord_start_idx,
                                 bm'.data)
                ELSE WritesAt(ord_array, ord_array', ord_start_idx, b)
       ELSE ord_array' = ord_array

\* C16: in each write pass the k-th block pulled is written to the rows
\* s + 1 .. s + h of the destination, h its height and s the sum of the
\* heights of the blocks pulled before it, before the next block is pulled;
\* the rows written are contiguous from the first row, each written once,
\* and after the pass they are all the rows of the blocks.
C16_BlocksAtOffsets == []Contiguous /\ [][BlockByBlock]_vars

\* A standardising pass over two blocks of two rows each is done: four rows
\* are written.
C16_Witness ==
    /\ ord_pc = "done"
    /\ standardise
    /\ Len(ord_source) = 2
    /\ Len(ord_source[1]) = 2
    /\ Len(ord_source[2]) = 2
    /\ ord_start_idx = 4
    /\ \A r \in 1..4 : ord_array[r] # Unwritten

====
